---- MODULE Spec2Model ----
(***************************************************************************)
(* Request coordination of the weather dashboard page                      *)
(* (src/app/weather-dashboard/page.tsx) together with the background       *)
(* search logger (src/unnamed/part_002, SearchLogger).                     *)
(* Spec is the page; SpecLookup is GET /api/weather with WeatherService;   *)
(* SpecLog is /api/log-search.  Each leaves the others' variables alone.   *)
(*                                                                         *)
(* Strings are sequences of one-character strings, so that trim() is a    *)
(* real computation.  null is the empty tuple, a non-null value x is the   *)
(* one-element tuple <<x>>.                                                *)
(***************************************************************************)
EXTENDS Integers, Sequences, FiniteSets, TLC

\* ------------------------------------------------------------------ bounds
MaxEdits == 2
TickMs == 250

\* --------------------------------------------------------------- constants
DEBOUNCE_DELAY_MS == 500
UNKNOWN_ERROR == "An unexpected error occurred. Please try again."
ServerErrorBody == "City not found"
FetchFailedMessage == "Failed to fetch"
JsonSyntaxMessage == "Unexpected token in JSON"

\* the values the input field takes (e.target.value)
InputValues ==
  {<< >>, <<" ">>, <<"L">>, <<"L", "o">>, <<" ", "L", "o", " ">>}

MaxId == MaxEdits + 1
Ids == 1..MaxId

\* ------------------------------------------------------------ pure helpers
Null == << >>
Some(x) == <<x>>

IsWhitespace(c) == c = " "

RECURSIVE TrimStart(_)
TrimStart(s) ==
  IF s = << >> THEN << >>
  ELSE IF IsWhitespace(Head(s)) THEN TrimStart(Tail(s)) ELSE s

RECURSIVE TrimEnd(_)
TrimEnd(s) ==
  IF s = << >> THEN << >>
  ELSE IF IsWhitespace(s[Len(s)]) THEN TrimEnd(SubSeq(s, 1, Len(s) - 1)) ELSE s

TrimLeftOnly(s) == TrimStart(s)
Trim(s) == TrimEnd(TrimStart(s))

\* the response body of a successful lookup for a (trimmed) city
Snapshot(c) == [city |-> c]

VARIABLES
  city,             \* useState city: the query
  weatherState,     \* useState weatherState: [data, loading, error]
  searchIdRef,      \* searchIdRef.current
  debounceTimerRef, \* debounceTimerRef.current: a timer handle, 0 for null
  timers,           \* timers of setTimeout that have neither fired nor been cleared
  inflight,         \* calls of fetchWeather suspended at an await
  logInflight,      \* POSTs of the logger that have not settled
  edits,            \* number of query changes so far
  issued,           \* history: calls fetchWeather(city, id) made by timer callbacks
  superseded,       \* history: ids whose timer was still running when the query changed
  outcome,          \* history: how the lookup of each id ended
  appliedBy,        \* history: token of the last call that reached setWeatherState
  updates,          \* history: number of calls of setWeatherState
  lastDrop,         \* history: the last outcome discarded as stale
  lastError,        \* history: the last error outcome applied and what caused it
  logCalls,         \* history: calls searchLogger.logSearch(city)
  diag,             \* last diagnostic record written by the logger's handlers
  unhandled,        \* a rejection of the logger's promise chain was left unhandled
  \* GET /api/weather (src/app/api/weather/route.ts) and WeatherService
  lkParam,          \* searchParams.get("city") of the request: null or a string
  lkPc,             \* where WeatherService.fetchWeather is suspended, or "idle"
  lkClock,          \* milliseconds since the request arrived
  lkAbortTimer,     \* the timer of controller.abort() is set
  lkProviderStatus, \* status of the provider's response, 0 before there is one
  lkProviderCalls,  \* requests made to the provider for this request
  lkCause,          \* history: what the provider call did
  lkOutcome,        \* what fetchWeather returned or threw
  lkResult,         \* the response of the route
  lkHandled,        \* number of requests received
  \* /api/log-search (src/app/api/log-search/route.ts)
  searchLogs,       \* the in-memory list of log entries
  lgClock,          \* logical time of new Date(): one tick per entry made
  lgBody,           \* the body of the last POST
  lgResponse        \* the last response of the endpoint

pageVars == <<city, weatherState, searchIdRef, debounceTimerRef, timers, inflight,
              logInflight, edits, issued, superseded, outcome, appliedBy, updates,
              lastDrop, lastError, logCalls, diag, unhandled>>

lookupVars == <<lkParam, lkPc, lkClock, lkAbortTimer, lkProviderStatus,
                lkProviderCalls, lkCause, lkOutcome, lkResult, lkHandled>>

logVars == <<searchLogs, lgClock, lgBody, lgResponse>>

serverVars == <<lookupVars, logVars>>

vars == <<pageVars, serverVars>>

\* ---------------------------------------------------------------- helpers
\* searchId === searchIdRef.current
IsLatestAlways(searchId) == TRUE
IsLatest(searchId) == searchId = searchIdRef

\* setWeatherState((prev) => ({ ...prev, ...updates }))
MergeDropsPrev(prev, upd) ==
  [k \in DOMAIN prev |-> IF k \in DOMAIN upd THEN upd[k]
                         ELSE IF k = "loading" THEN FALSE ELSE << >>]
Merge(prev, upd) ==
  [k \in DOMAIN prev |-> IF k \in DOMAIN upd THEN upd[k] ELSE prev[k]]

updateWeatherState(ws, searchId, upd) ==
  IF IsLatest(searchId) THEN Merge(ws, upd) ELSE ws

\* searchIdRef.current += 1
NextSearchIdStuck(id) == id
NextSearchId(id) == id + 1

\* clearTimeout(handle)
ClearTimeoutNoop(ts, handle) == ts
ClearTimeout(ts, handle) == {t \in ts : t.handle # handle}

ClearUpdateKeepsData == [error |-> Null, loading |-> FALSE]
ClearUpdate == [data |-> Null, error |-> Null, loading |-> FALSE]
LoadingUpdateNoFlag == [error |-> Null]
LoadingUpdate == [loading |-> TRUE, error |-> Null]
SuccessUpdate(data) == [data |-> Some(data), error |-> Null, loading |-> FALSE]
ErrorUpdateKeepsData(msg) == [error |-> Some(msg), loading |-> FALSE]
ErrorUpdate(msg) == [error |-> Some(msg), data |-> Null, loading |-> FALSE]

\* the route before its first request
NoOutcome == [class |-> "none", message |-> "", statusCode |-> 0]
NoResult == [status |-> 0, error |-> "", data |-> Null]

LookupInit ==
  /\ lkParam = Null
  /\ lkPc = "idle"
  /\ lkClock = 0
  /\ lkAbortTimer = FALSE
  /\ lkProviderStatus = 0
  /\ lkProviderCalls = 0
  /\ lkCause = "none"
  /\ lkOutcome = NoOutcome
  /\ lkResult = NoResult
  /\ lkHandled = 0

\* the logging endpoint before its first request
NoBody == [kind |-> "none", cityType |-> "undefined", city |-> << >>]
NoLogResponse == [status |-> 0, success |-> "absent", error |-> "", count |-> 0]

LogInit ==
  /\ searchLogs = << >>
  /\ lgClock = 0
  /\ lgBody = NoBody
  /\ lgResponse = NoLogResponse

Init ==
  /\ city = << >>
  /\ weatherState = [data |-> Null, loading |-> FALSE, error |-> Null]
  /\ searchIdRef = 1
  /\ debounceTimerRef = 1
  /\ timers = {[handle |-> 1, id |-> 1, city |-> << >>, elapsed |-> 0]}
  /\ inflight = {}
  /\ logInflight = {}
  /\ edits = 0
  /\ issued = << >>
  /\ superseded = {}
  /\ outcome = [i \in Ids |-> "none"]
  /\ appliedBy = 0
  /\ updates = 0
  /\ lastDrop = [id |-> 0, appliedBy |-> 0, after |-> "none"]
  /\ lastError = [id |-> 0, cause |-> "none"]
  /\ logCalls = << >>
  /\ diag = "none"
  /\ unhandled = FALSE
  /\ LookupInit
  /\ LogInit

\* onChange -> setCity(value), then the effect of [city]: cleanup of the
\* previous run, clearTimeout, searchIdRef.current += 1, setTimeout
Edit(value) ==
  /\ edits < MaxEdits
  /\ value # city
  /\ city' = value
  /\ edits' = edits + 1
  /\ searchIdRef' = NextSearchId(searchIdRef)
  /\ LET cleared == IF debounceTimerRef # 0
                    THEN ClearTimeout(timers, debounceTimerRef)
                    ELSE timers
     IN  timers' = cleared \cup {[handle |-> edits + 2,
                                  id |-> NextSearchId(searchIdRef),
                                  city |-> value,
                                  elapsed |-> 0]}
  /\ debounceTimerRef' = edits + 2
  /\ superseded' = superseded \cup {t.id : t \in {x \in timers : x.elapsed < DEBOUNCE_DELAY_MS}}
  /\ UNCHANGED <<weatherState, inflight, logInflight, issued, outcome,
                 appliedBy, updates, lastDrop, lastError, logCalls, diag, unhandled>>
  /\ UNCHANGED serverVars

\* time passes while no timer is due
Tick ==
  /\ timers # {}
  /\ \A t \in timers : t.elapsed < DEBOUNCE_DELAY_MS
  /\ timers' = {[t EXCEPT !.elapsed = IF t.elapsed + TickMs >= DEBOUNCE_DELAY_MS
                                       THEN DEBOUNCE_DELAY_MS
                                       ELSE t.elapsed + TickMs] : t \in timers}
  /\ UNCHANGED <<city, weatherState, searchIdRef, debounceTimerRef, inflight,
                 logInflight, edits, issued, superseded, outcome, appliedBy,
                 updates, lastDrop, lastError, logCalls, diag, unhandled>>
  /\ UNCHANGED serverVars

\* the three settlements of a promise returned by fetch
FetchResults == {"ok", "notok", "reject"}
\* what response.json() yields: a body with the expected field, a body
\* without it, or a parse failure
BodyResults == {"valid", "noError", "malformed"}

\* `!trimmedCity`
IsBlankNever(trimmed) == FALSE
IsBlank(trimmed) == trimmed = << >>

\* an accepted call of updateWeatherState
Applied(searchId, upd) ==
  /\ weatherState' = updateWeatherState(weatherState, searchId, upd)
  /\ appliedBy' = IF IsLatest(searchId) THEN searchId ELSE appliedBy
  /\ updates' = IF IsLatest(searchId) THEN updates + 1 ELSE updates

\* `return` (or a skipped branch) on a token that is no longer current
Dropped(searchId, kind) ==
  /\ outcome' = [outcome EXCEPT ![searchId] = kind]
  /\ lastDrop' = [id |-> searchId, appliedBy |-> appliedBy,
                  after |-> IF appliedBy \in Ids THEN outcome[appliedBy] ELSE "none"]
  /\ UNCHANGED <<weatherState, appliedBy, updates>>

\* the timer callback: fetchWeather(city, currentSearchId) up to its first await
FireTimer(t) ==
  /\ t \in timers
  /\ t.elapsed >= DEBOUNCE_DELAY_MS
  /\ timers' = timers \ {t}
  /\ issued' = Append(issued, [id |-> t.id, city |-> t.city, query |-> city])
  /\ LET trimmedCity == Trim(t.city)
     IN  IF IsBlank(trimmedCity)
         THEN /\ Applied(t.id, ClearUpdate)
              /\ outcome' = [outcome EXCEPT ![t.id] =
                               IF IsLatest(t.id) THEN "cleared" ELSE "staleClear"]
              /\ UNCHANGED inflight
         ELSE /\ Applied(t.id, LoadingUpdate)
              /\ inflight' = inflight \cup
                               {[id |-> t.id, city |-> trimmedCity, stage |-> "fetch"]}
              /\ UNCHANGED outcome
  /\ UNCHANGED <<city, searchIdRef, debounceTimerRef, logInflight, edits,
                 superseded, lastDrop, lastError, logCalls, diag, unhandled>>
  /\ UNCHANGED serverVars

\* the catch block of fetchWeather
Fail(r, msg, cause) ==
  IF IsLatest(r.id)
  THEN /\ Applied(r.id, ErrorUpdate(msg))
       /\ outcome' = [outcome EXCEPT ![r.id] = "error"]
       /\ lastError' = [id |-> r.id, cause |-> cause]
       /\ UNCHANGED lastDrop
  ELSE Dropped(r.id, "staleErr") /\ UNCHANGED lastError

\* `await fetch(...)` settles; the check `searchId !== searchIdRef.current`
FetchSettles(r, res) ==
  /\ r \in inflight
  /\ r.stage = "fetch"
  /\ IF res = "reject"
     THEN /\ Fail(r, FetchFailedMessage, "reject")
          /\ inflight' = inflight \ {r}
     ELSE IF ~IsLatest(r.id)
          THEN /\ Dropped(r.id, IF res = "ok" THEN "staleOk" ELSE "staleErr")
               /\ inflight' = inflight \ {r}
               /\ UNCHANGED lastError
          ELSE /\ inflight' = (inflight \ {r}) \cup
                     {[r EXCEPT !.stage = IF res = "ok" THEN "jsonOk" ELSE "jsonErr"]}
               /\ UNCHANGED <<weatherState, appliedBy, updates, outcome, lastDrop, lastError>>
  /\ UNCHANGED <<city, searchIdRef, debounceTimerRef, timers, logInflight, edits,
                 issued, superseded, logCalls, diag, unhandled>>
  /\ UNCHANGED serverVars

\* errorData.error || ERROR_MESSAGES.UNKNOWN_ERROR
ErrorMessageOf(body) == IF body = "valid" THEN ServerErrorBody ELSE UNKNOWN_ERROR

\* SearchLogger.logSearch: `!city || !city.trim()` skips the POST
LogSearchSends(c) == ~(c = << >> \/ Trim(c) = << >>)

\* the success branch: updateWeatherState, then searchLogger.logSearch
Succeed(r) ==
  /\ Applied(r.id, SuccessUpdate(Snapshot(r.city)))
  /\ outcome' = [outcome EXCEPT ![r.id] = "success"]
  /\ logCalls' = Append(logCalls, [id |-> r.id, city |-> r.city,
                                   counter |-> searchIdRef,
                                   seen |-> weatherState'.data])
  /\ logInflight' = IF LogSearchSends(r.city)
                    THEN logInflight \cup {[id |-> r.id, city |-> Trim(r.city)]}
                    ELSE logInflight
  /\ UNCHANGED <<lastDrop, lastError>>

\* `await response.json()` settles
BodySettles(r, body) ==
  /\ r \in inflight
  /\ r.stage \in {"jsonOk", "jsonErr"}
  /\ r.stage = "jsonOk" => body \in {"valid", "malformed"}
  /\ inflight' = inflight \ {r}
  /\ IF r.stage = "jsonErr"
     THEN Fail(r, ErrorMessageOf(body), body) /\ UNCHANGED <<logCalls, logInflight>>
     ELSE IF body = "malformed"
          THEN Fail(r, JsonSyntaxMessage, "parse") /\ UNCHANGED <<logCalls, logInflight>>
          ELSE IF IsLatest(r.id)
               THEN Succeed(r)
               ELSE Dropped(r.id, "staleOk") /\ UNCHANGED <<logCalls, logInflight, lastError>>
  /\ UNCHANGED <<city, searchIdRef, debounceTimerRef, timers, edits, issued,
                 superseded, diag, unhandled>>
  /\ UNCHANGED serverVars

\* the promise chain fetch(...).then(onResponse).catch(onError)
ThenStage(res) ==
  IF res = "reject" THEN [state |-> "rejected", diag |-> "none"]
  ELSE IF res = "notok" THEN [state |-> "fulfilled", diag |-> "warn"]
  ELSE [state |-> "fulfilled", diag |-> "debug"]

CatchStageMissing(p) == p
CatchStage(p) ==
  IF p.state = "rejected" THEN [state |-> "fulfilled", diag |-> "error"] ELSE p

\* the logger's POST settles (a POST that never responds never takes this step)
LogSettles(l, res) ==
  /\ l \in logInflight
  /\ logInflight' = logInflight \ {l}
  /\ LET chain == CatchStage(ThenStage(res))
     IN  /\ diag' = chain.diag
         /\ unhandled' = (unhandled \/ chain.state = "rejected")
  /\ UNCHANGED <<city, weatherState, searchIdRef, debounceTimerRef, timers,
                 inflight, edits, issued, superseded, outcome, appliedBy,
                 updates, lastDrop, lastError, logCalls>>
  /\ UNCHANGED serverVars

\* ----------------------------------------------------------------- render
\* {weatherState.loading && ...}
ShowSpinner == weatherState.loading
\* {weatherState.error && !weatherState.loading && ...}
ShowError == weatherState.error # Null /\ ~weatherState.loading
\* {weatherState.data && !weatherState.loading && ...}
ShowCardWhileLoading == weatherState.data # Null
ShowCard == weatherState.data # Null /\ ~weatherState.loading
\* {!loading && !error && !data && city.trim() && ...}
ShowHint ==
  /\ ~weatherState.loading
  /\ weatherState.error = Null
  /\ weatherState.data = Null
  /\ Trim(city) # << >>

Shown == {e \in {"spinner", "error", "card", "hint"} :
            \/ e = "spinner" /\ ShowSpinner
            \/ e = "error" /\ ShowError
            \/ e = "card" /\ ShowCard
            \/ e = "hint" /\ ShowHint}

Next ==
  \/ \E value \in InputValues : Edit(value)
  \/ Tick
  \/ \E t \in timers : FireTimer(t)
  \/ \E r \in inflight, res \in FetchResults : FetchSettles(r, res)
  \/ \E r \in inflight, body \in BodyResults : BodySettles(r, body)
  \/ \E l \in logInflight, res \in FetchResults : LogSettles(l, res)

Spec == Init /\ [][Next]_vars

\* ------------------------------------------------------- shared vocabulary
Idle == [data |-> Null, loading |-> FALSE, error |-> Null]

AllWhitespace(str) == \A i \in DOMAIN str : IsWhitespace(str[i])

IsTrimmed(str) ==
  str = << >> \/ (~IsWhitespace(str[1]) /\ ~IsWhitespace(str[Len(str)]))

\* c is str without its leading and trailing whitespace
IsTrimOf(c, str) ==
  /\ IsTrimmed(c)
  /\ \E i \in 1..(Len(str) + 1) :
       /\ i + Len(c) - 1 <= Len(str)
       /\ SubSeq(str, i, i + Len(c) - 1) = c
       /\ \A k \in DOMAIN str : (k < i \/ k > i + Len(c) - 1) => IsWhitespace(str[k])

Accepted == {"cleared", "success", "error"}
Stale == {"staleOk", "staleErr", "staleClear"}

\* ---------------------------------------------------------------------- C1
\* C1: a lookup scheduled before another never changes data, error or
\* loading once the later one has been applied: the tokens of the calls
\* that reach the visible state never go down, every change of the visible
\* state is made by the holder of the current token, which is the most
\* recently scheduled lookup, and a discarded outcome changes nothing.
C1_LatestScheduledWins ==
  [][/\ appliedBy' >= appliedBy
     /\ weatherState' # weatherState =>
          /\ appliedBy' = searchIdRef
          /\ searchIdRef' = searchIdRef
          /\ searchIdRef = edits + 1
     /\ lastDrop' # lastDrop => weatherState' = weatherState]_vars

\* lookup A (earlier) resolved after the outcome of lookup B (later) was applied
C1_Witness ==
  /\ lastDrop.id > 0
  /\ lastDrop.appliedBy > lastDrop.id
  /\ lastDrop.after \in {"success", "error"}

\* ---------------------------------------------------------------------- C2
\* C2: a burst of query edits, each arriving before the debounce period of
\* the previous one has elapsed, followed by a quiet period, issues exactly
\* one lookup, carrying the final query value; no lookup is issued for a
\* superseded value.
C2_OneLookupPerBurst ==
  /\ \A k \in DOMAIN issued :
       /\ issued[k].id \notin superseded
       /\ issued[k].city = issued[k].query
  /\ \A k, m \in DOMAIN issued : issued[k].id = issued[m].id => k = m
  /\ Len(issued) + Cardinality(superseded) <= edits + 1
  /\ timers = {} =>
       /\ Len(issued) > 0
       /\ issued[Len(issued)].id = searchIdRef
       /\ issued[Len(issued)].city = city

\* three values typed in one burst, then quiet: one lookup, for the last value
C2_Witness ==
  /\ superseded = {1, 2}
  /\ timers = {}
  /\ Len(issued) = 1
  /\ issued[1].id = 3
  /\ issued[1].city = city

\* ---------------------------------------------------------------------- C3
\* C3: an outcome (success, error, empty-input clear) is applied only if its
\* token equals the counter when it is applied; an accepted outcome makes
\* exactly one call of setWeatherState, a stale one leaves data, error and
\* loading unchanged.
C3_TokenGuard ==
  [][\A i \in Ids :
       outcome'[i] # outcome[i] =>
         IF outcome'[i] \in Accepted
         THEN /\ i = searchIdRef
              /\ appliedBy' = i
              /\ updates' = updates + 1
         ELSE /\ weatherState' = weatherState
              /\ updates' = updates]_vars

\* one lookup was accepted and another was discarded
C3_Witness ==
  \E i, j \in Ids :
    /\ outcome[i] \in {"success", "error"}
    /\ outcome[j] \in Stale
    /\ appliedBy = i

\* ---------------------------------------------------------------------- C4
\* C4: once the query is empty or whitespace-only and its debounce timer has
\* fired, the visible state is Idle, and it stays Idle when lookups for
\* earlier queries resolve afterwards.
C4_ClearEndsIdle ==
  (AllWhitespace(city) /\ timers = {}) => weatherState = Idle

\* the query was cleared while a lookup was in flight, which resolved after
\* the clear
C4_Witness ==
  /\ AllWhitespace(city)
  /\ timers = {}
  /\ lastDrop.id > 0
  /\ lastDrop.after = "cleared"
  /\ weatherState = Idle

\* ---------------------------------------------------------------------- C5
\* C5 as stated: an empty or whitespace-only query has data and error null
\* at once, without waiting for the debounce period.
C5_Original ==
  AllWhitespace(city) => (weatherState.data = Null /\ weatherState.error = Null)

\* C5 as amended: the clear happens when the debounce timer of the empty or
\* whitespace-only query fires: that step sets data and error to null and
\* loading to false and sends no request; no request for an empty city is
\* ever in flight.
C5_ClearOnFire ==
  /\ [](\A r \in inflight : ~AllWhitespace(r.city))
  /\ [][(Len(issued') = Len(issued) + 1 /\ AllWhitespace(issued'[Len(issued')].city)) =>
          /\ weatherState' = Idle
          /\ inflight' = inflight
          /\ outcome'[issued'[Len(issued')].id] = "cleared"]_vars

\* a snapshot was showing, the query became empty, the timer fired
C5_Witness ==
  /\ \E i, j \in Ids : i < j /\ outcome[i] = "success" /\ outcome[j] = "cleared"
  /\ weatherState = Idle
  /\ inflight = {}

\* ---------------------------------------------------------------------- C6
LogCount(i) == Cardinality({k \in DOMAIN logCalls : logCalls[k].id = i})

\* C6 as stated: every lookup whose response is successful, whether or not
\* its token is still current, calls the logger exactly once; every lookup
\* that resolves with an error calls it zero times.
C6_Original ==
  \A i \in Ids :
    /\ outcome[i] \in {"success", "staleOk"} => LogCount(i) = 1
    /\ outcome[i] \in {"error", "staleErr"} => LogCount(i) = 0

\* C6 as amended: every lookup whose success is accepted (its token is still
\* current) calls the logger exactly once, with the trimmed city of that
\* lookup; a lookup that resolves with an error, or whose successful
\* response is stale, calls it zero times.
C6_LogPerAcceptedSuccess ==
  /\ \A k \in DOMAIN issued :
       LET i == issued[k].id
       IN  IF outcome[i] = "success"
           THEN /\ LogCount(i) = 1
                /\ \A m \in DOMAIN logCalls :
                     logCalls[m].id = i =>
                       /\ IsTrimOf(logCalls[m].city, issued[k].city)
                       /\ logCalls[m].city # << >>
           ELSE LogCount(i) = 0
  /\ \A m \in DOMAIN logCalls : \E k \in DOMAIN issued : issued[k].id = logCalls[m].id

\* a query with surrounding whitespace was logged trimmed, another lookup failed
C6_Witness ==
  \E k \in DOMAIN issued, j \in Ids :
    /\ outcome[issued[k].id] = "success"
    /\ LogCount(issued[k].id) = 1
    /\ \E m \in DOMAIN logCalls : logCalls[m].city # issued[k].city
    /\ outcome[j] = "error"
    /\ LogCount(j) = 0

\* ---------------------------------------------------------------------- C7
\* C7: whatever happens to the logging POST (rejected, non-2xx, any body,
\* no response at all), no rejection escapes the logger, the lookup that
\* called it has already finished, and the settling of the POST leaves
\* data, error and loading as they were.
C7_LoggerIsolated ==
  /\ [](/\ ~unhandled
        /\ \A l \in logInflight :
             /\ outcome[l.id] = "success"
             /\ \A r \in inflight : r.id # l.id)
  /\ [][(logInflight' # logInflight /\ logCalls' = logCalls) =>
          UNCHANGED <<weatherState, searchIdRef, timers, inflight, outcome, updates>>]_vars

\* the POST was rejected and the snapshot is still shown
C7_Witness ==
  /\ diag = "error"
  /\ logInflight = {}
  /\ weatherState.data # Null
  /\ ~weatherState.loading

\* ---------------------------------------------------------------------- C8
\* C8: the logger is called only by a lookup whose token is current and
\* whose success has already been written to data, always with a non-empty
\* trimmed city; a stale successful response never reaches the logger.
C8_LogAfterAppliedSuccess ==
  /\ \A m \in DOMAIN logCalls :
       /\ logCalls[m].id = logCalls[m].counter
       /\ logCalls[m].seen = Some(Snapshot(logCalls[m].city))
       /\ logCalls[m].city # << >>
       /\ IsTrimmed(logCalls[m].city)
  /\ \A i \in Ids : outcome[i] = "staleOk" => LogCount(i) = 0
  /\ \A l \in logInflight : \E m \in DOMAIN logCalls :
       logCalls[m].id = l.id /\ logCalls[m].city = l.city

\* one success was logged, one stale success was not
C8_Witness ==
  /\ Len(logCalls) = 1
  /\ \E i \in Ids : outcome[i] = "staleOk"

\* ---------------------------------------------------------------------- C9
\* C9 as stated: exactly one of spinner, error banner, weather card and
\* empty-state hint is shown in every reachable state.
C9_Original == Cardinality(Shown) = 1

\* C9 as amended: at most one of the four is shown, and exactly one unless
\* the visible state is Idle and the query is empty or whitespace-only, when
\* none is shown.
C9_AtMostOneShown ==
  /\ Cardinality(Shown) <= 1
  /\ Shown = {} <=> (weatherState = Idle /\ AllWhitespace(city))

\* an old snapshot is kept while the next lookup loads: only the spinner shows
C9_Witness ==
  /\ weatherState.loading
  /\ weatherState.data # Null
  /\ Shown = {"spinner"}

\* --------------------------------------------------------------------- C10
Mode(ws) ==
  IF ws.loading THEN "Loading"
  ELSE IF ws.data # Null THEN "Loaded"
  ELSE IF ws.error # Null THEN "Failed"
  ELSE "Idle"

StatedModeChanges ==
  {<<"Idle", "Loading">>, <<"Loading", "Loaded">>, <<"Loading", "Failed">>,
   <<"Loading", "Idle">>, <<"Loaded", "Idle">>, <<"Failed", "Idle">>}

ModeChangeWithin(allowed) ==
  Mode(weatherState') # Mode(weatherState) =>
    /\ <<Mode(weatherState), Mode(weatherState')>> \in allowed
    /\ Mode(weatherState') = "Idle" => AllWhitespace(city)

\* C10 as stated: the only mode changes are Idle->Loading, Loading->Loaded,
\* Loading->Failed and Loading/Loaded/Failed->Idle, the last only for an
\* empty or whitespace-only query.
C10_Original == [][ModeChangeWithin(StatedModeChanges)]_vars

\* C10 as amended: the mode changes are those stated and also Loaded->Loading
\* and Failed->Loading, which happen when the debounce timer of a new
\* non-empty query fires.
C10_ModeChanges ==
  [][ModeChangeWithin(StatedModeChanges \cup
                      {<<"Loaded", "Loading">>, <<"Failed", "Loading">>})]_vars

\* Loaded, then a new lookup (Loading), which failed
C10_Witness ==
  /\ \E i, j \in Ids : i < j /\ outcome[i] = "success" /\ outcome[j] = "error"
  /\ Mode(weatherState) = "Failed"

\* --------------------------------------------------------------------- C11
\* the message the page shows for each way a lookup can fail
ExpectedMessage(cause) ==
  IF cause = "valid" THEN ServerErrorBody
  ELSE IF cause \in {"noError", "malformed"} THEN UNKNOWN_ERROR
  ELSE IF cause = "reject" THEN FetchFailedMessage
  ELSE JsonSyntaxMessage

\* C11: when a lookup resolves with an error and its token is still current,
\* the visible state becomes error = the error's message (the error field
\* of the response body, a default when it is absent, the message of the
\* thrown failure otherwise), data = null, loading = false: no earlier
\* snapshot stays next to the error.
C11_ErrorReplacesSnapshot ==
  [][\A i \in Ids :
       (outcome'[i] = "error" /\ outcome[i] # "error") =>
         /\ i = searchIdRef
         /\ lastError'.id = i
         /\ weatherState' = [data |-> Null, loading |-> FALSE,
                             error |-> Some(ExpectedMessage(lastError'.cause))]]_vars

\* a snapshot was shown, the next lookup failed without an error field
C11_Witness ==
  /\ \E i, j \in Ids : i < j /\ outcome[i] = "success" /\ outcome[j] = "error"
  /\ lastError.cause = "noError"
  /\ weatherState = [data |-> Null, loading |-> FALSE, error |-> Some(UNKNOWN_ERROR)]

\* --------------------------------------------------------------------- C12
\* C12: while a request carrying the current token is in flight (awaiting
\* the response or its body), loading is true.
C12_LoadingWhileCurrentInFlight ==
  \A r \in inflight : r.id = searchIdRef => weatherState.loading

\* the current request awaits its body while an older one is still in flight
C12_Witness ==
  \E r, q \in inflight :
    /\ r.id = searchIdRef
    /\ r.stage = "jsonOk"
    /\ q.id < r.id
    /\ weatherState.loading

\* --------------------------------------------------------------------- C19
\* the tokens held by pending timers and by requests in flight
TimerIds == {t.id : t \in timers}
InflightIds == {r.id : r \in inflight}
IssuedIds == {issued[k].id : k \in DOMAIN issued}
\* the timers set by the step (a timer is known by its handle)
NewTimers == {t \in timers' : t.handle \notin {u.handle : u \in timers}}

\* C19: the counter never decreases and goes up by exactly one for each
\* timer that is set; the tokens of all scheduled lookups are distinct, and
\* at most one pending or in-flight lookup holds the current token.
C19_TokensDistinct ==
  /\ [](/\ \A t, u \in timers : t.id = u.id => t = u
        /\ \A r, q \in inflight : r.id = q.id => r = q
        /\ TimerIds \cap (InflightIds \cup IssuedIds) = {}
        /\ \A k, m \in DOMAIN issued : issued[k].id = issued[m].id => k = m
        /\ \A i \in TimerIds \cup InflightIds \cup IssuedIds : i <= searchIdRef
        /\ Cardinality({t \in timers : t.id = searchIdRef})
             + Cardinality({r \in inflight : r.id = searchIdRef}) <= 1)
  /\ [][/\ searchIdRef' >= searchIdRef
        /\ searchIdRef' = searchIdRef + Cardinality(NewTimers)
        /\ Cardinality(NewTimers) <= 1
        /\ \A t \in NewTimers : t.id = searchIdRef']_vars

\* three lookups were scheduled: one ran, one is in flight, one is pending
C19_Witness ==
  /\ searchIdRef = 3
  /\ TimerIds = {3}
  /\ InflightIds = {2}
  /\ IssuedIds = {1, 2}

\* --------------------------------------------------------------------- C20
\* C20: at most one debounce timer is pending; a query change removes the
\* pending timer and sets one new timer, so only the timer of the latest
\* query ever issues a lookup; a query change leaves requests in flight
\* alone, and a request that is no longer current ends discarded, without
\* touching the visible state.
C20_OneTimerNoAbort ==
  /\ [](Cardinality(timers) <= 1)
  /\ [][/\ edits' # edits =>
             /\ inflight' = inflight
             /\ Cardinality(timers') = 1
             /\ \A t \in timers' : t.id = searchIdRef' /\ t.elapsed = 0
        /\ Len(issued') > Len(issued) =>
             /\ issued'[Len(issued')].id = searchIdRef
             /\ \A t \in timers : t.id = searchIdRef
        /\ \A r \in inflight :
             (r.id \notin {q.id : q \in inflight'} /\ r.id # searchIdRef) =>
               /\ outcome'[r.id] \in Stale
               /\ weatherState' = weatherState]_vars

\* the query changed while a request was in flight; the request ended
\* discarded while the new timer was still pending
C20_Witness ==
  /\ Cardinality(timers) = 1
  /\ lastDrop.id > 0
  /\ outcome[lastDrop.id] \in Stale
  /\ \A t \in timers : t.id > lastDrop.id

\* ======================================================================
\* GET /api/weather: the route and WeatherService.fetchWeather
\* ======================================================================
\* bounds
MaxRequests == 2
LookupTickMs == 5000
LookupMaxClockMs == 20000

\* constants of src/unnamed/part_002
WEATHER_API_TIMEOUT_MS == 10000
CITY_REQUIRED == "Please enter a city name"
CITY_NOT_FOUND == "City not found. Please check the spelling and try again."
NETWORK_ERROR == "Network error. Please check your connection and try again."
SERVER_ERROR == "Server error. Please try again later."
HTTP_OK == 200
HTTP_BAD_REQUEST == 400
HTTP_INTERNAL_SERVER_ERROR == 500

\* the message field of the provider's error body, when it has one
ProviderMessage == "No matching location found."

\* searchParams.get("city"): null when the parameter is missing
LookupParams ==
  {Null, Some(<< >>), Some(<<" ">>), Some(<<"L", "o">>), Some(<<" ", "L", "o", " ">>)}

\* statuses the provider answers with
ProviderStatuses == {200, 400, 403, 500}

\* response.ok
ResponseOk(status) == status >= 200 /\ status <= 299

\* route: `!city` (null or the empty string)
RouteRejects(param) == param = Null \/ param[1] = << >>

\* WeatherService.fetchWeather: `!city || typeof city !== "string" || !city.trim()`
ServiceRejectsEmptyOnly(c) == c = << >>
ServiceRejects(c) == c = << >> \/ Trim(c) = << >>

\* `response.status === 400`
IsNotFoundStatusAny(status) == TRUE
IsNotFoundStatus(status) == status = 400

\* the error thrown for a response that is not ok
ErrorForStatus(status, body) ==
  IF IsNotFoundStatus(status)
  THEN [class |-> "WeatherAPIError",
        message |-> IF body = "withMessage" THEN ProviderMessage ELSE CITY_NOT_FOUND,
        statusCode |-> status]
  ELSE [class |-> "WeatherAPIError", message |-> SERVER_ERROR, statusCode |-> status]

\* the catch block of WeatherService.fetchWeather, for what was thrown in
\* the try block other than a WeatherAPIError
CatchBlock(thrown) ==
  IF thrown = "AbortError"
  THEN [class |-> "NetworkError", message |-> NETWORK_ERROR, statusCode |-> 0]
  ELSE IF thrown = "TypeError:fetch"
  THEN [class |-> "NetworkError", message |-> NETWORK_ERROR, statusCode |-> 0]
  ELSE [class |-> "WeatherAPIError", message |-> UNKNOWN_ERROR, statusCode |-> 500]

\* the route's response for what fetchWeather returned or threw
RouteResponse(out, c) ==
  IF out.class = "WeatherData"
  THEN [status |-> HTTP_OK, error |-> "", data |-> Some(Snapshot(c))]
  ELSE IF out.class = "ValidationError"
  THEN [status |-> HTTP_BAD_REQUEST, error |-> out.message, data |-> Null]
  ELSE IF out.class = "WeatherAPIError"
  THEN [status |-> IF out.statusCode # 0 THEN out.statusCode
                   ELSE HTTP_INTERNAL_SERVER_ERROR,
        error |-> out.message, data |-> Null]
  ELSE IF out.class = "NetworkError"
  THEN [status |-> HTTP_INTERNAL_SERVER_ERROR, error |-> out.message, data |-> Null]
  ELSE [status |-> HTTP_INTERNAL_SERVER_ERROR, error |-> UNKNOWN_ERROR, data |-> Null]

\* fetchWeather ends: the route answers
LkFinish(out) ==
  /\ lkPc' = "idle"
  /\ lkOutcome' = out
  /\ lkResult' = RouteResponse(out, Trim(lkParam[1]))

\* a request arrives: the route's check, the service's check, the fetch
LkRequest(param) ==
  /\ lkPc = "idle"
  /\ lkHandled < MaxRequests
  /\ lkHandled' = lkHandled + 1
  /\ lkParam' = param
  /\ lkClock' = 0
  /\ lkProviderStatus' = 0
  /\ lkCause' = "none"
  /\ IF RouteRejects(param)
     THEN /\ lkResult' = [status |-> HTTP_BAD_REQUEST, error |-> CITY_REQUIRED,
                          data |-> Null]
          /\ lkOutcome' = NoOutcome
          /\ lkProviderCalls' = 0
          /\ UNCHANGED <<lkPc, lkAbortTimer>>
     ELSE IF ServiceRejects(param[1])
     THEN /\ lkOutcome' = [class |-> "ValidationError", message |-> CITY_REQUIRED,
                           statusCode |-> 0]
          /\ lkResult' = RouteResponse(lkOutcome', << >>)
          /\ lkProviderCalls' = 0
          /\ UNCHANGED <<lkPc, lkAbortTimer>>
     ELSE /\ lkPc' = "fetch"
          /\ lkAbortTimer' = TRUE
          /\ lkProviderCalls' = 1
          /\ lkOutcome' = NoOutcome
          /\ lkResult' = NoResult
  /\ UNCHANGED <<pageVars, logVars>>

\* time passes while the request is open and the abort timer is not due
LkTick ==
  /\ lkPc # "idle"
  /\ lkClock < LookupMaxClockMs
  /\ ~(lkAbortTimer /\ lkClock >= WEATHER_API_TIMEOUT_MS)
  /\ lkClock' = lkClock + LookupTickMs
  /\ UNCHANGED <<lkParam, lkPc, lkAbortTimer, lkProviderStatus, lkProviderCalls,
                 lkCause, lkOutcome, lkResult, lkHandled>>
  /\ UNCHANGED <<pageVars, logVars>>

\* the timer fires: controller.abort() rejects the fetch with an AbortError
LkAbort ==
  /\ lkPc = "fetch"
  /\ lkAbortTimer
  /\ lkClock >= WEATHER_API_TIMEOUT_MS
  /\ lkAbortTimer' = FALSE
  /\ lkCause' = "abort"
  /\ LkFinish(CatchBlock("AbortError"))
  /\ UNCHANGED <<lkParam, lkClock, lkProviderStatus, lkProviderCalls, lkHandled>>
  /\ UNCHANGED <<pageVars, logVars>>

\* the fetch rejects: a TypeError naming fetch, or something else
LkTransportFails(thrown) ==
  /\ lkPc = "fetch"
  /\ lkCause' = thrown
  /\ LkFinish(CatchBlock(thrown))
  /\ UNCHANGED <<lkParam, lkClock, lkAbortTimer, lkProviderStatus, lkProviderCalls,
                 lkHandled>>
  /\ UNCHANGED <<pageVars, logVars>>

\* the response (status and headers) arrives: clearTimeout(timeoutId)
LkHeaders(status) ==
  /\ lkPc = "fetch"
  /\ lkAbortTimer' = FALSE
  /\ lkProviderStatus' = status
  /\ lkPc' = IF ResponseOk(status) THEN "body" ELSE "errbody"
  /\ UNCHANGED <<lkParam, lkClock, lkProviderCalls, lkCause, lkOutcome, lkResult,
                 lkHandled>>
  /\ UNCHANGED <<pageVars, logVars>>

\* response.json() settles: of the data, or of parseErrorResponse
LkBody(body) ==
  /\ lkPc \in {"body", "errbody"}
  /\ lkPc = "body" => body \in {"valid", "malformed"}
  /\ lkPc = "errbody" => body \in {"withMessage", "noMessage", "malformed"}
  /\ lkCause' = body
  /\ IF lkPc = "errbody"
     THEN LkFinish(ErrorForStatus(lkProviderStatus, body))
     ELSE IF body = "valid"
          THEN LkFinish([class |-> "WeatherData", message |-> "", statusCode |-> 0])
          ELSE LkFinish(CatchBlock("SyntaxError"))
  /\ UNCHANGED <<lkParam, lkClock, lkAbortTimer, lkProviderStatus, lkProviderCalls,
                 lkHandled>>
  /\ UNCHANGED <<pageVars, logVars>>

NextLookup ==
  \/ \E param \in LookupParams : LkRequest(param)
  \/ LkTick
  \/ LkAbort
  \/ \E thrown \in {"TypeError:fetch", "TypeError:other"} : LkTransportFails(thrown)
  \/ \E status \in ProviderStatuses : LkHeaders(status)
  \/ \E body \in {"valid", "malformed", "withMessage", "noMessage"} : LkBody(body)

SpecLookup == Init /\ [][NextLookup]_vars

\* --------------------------------------------------------------------- C13
\* C13 as stated: every response of the lookup endpoint has status 200 with
\* a snapshot, or 400 or 500 with an error string; every provider response
\* whose status is neither OK nor 400 is answered with 500.
C13_StatusSet ==
  lkResult.status # 0 =>
    /\ lkResult.status \in {200, 400, 500}
    /\ lkResult.status = 200 => lkResult.data # Null
    /\ lkResult.status # 200 => lkResult.error # ""
    /\ (lkProviderStatus # 0 /\ ~ResponseOk(lkProviderStatus) /\ lkProviderStatus # 400)
         => lkResult.status = 500

\* --------------------------------------------------------------------- C16
\* C16 as stated: an invocation of the lookup client that has run longer
\* than the timeout has ended; none is still waiting for the provider, or
\* for the provider's response body, after that.
C16_BoundedWait ==
  lkPc # "idle" => lkClock <= WEATHER_API_TIMEOUT_MS

\* --------------------------------------------------------------------- C17
\* the kind of outcome of an invocation of the lookup client
OutcomeKind(out) ==
  IF out.class = "WeatherData" THEN "success"
  ELSE IF out.class = "NetworkError" /\ out.message = NETWORK_ERROR THEN "network"
  ELSE IF out.class = "WeatherAPIError" /\ out.statusCode = 400
          /\ out.message \in {ProviderMessage, CITY_NOT_FOUND} THEN "notFound"
  ELSE IF out.class = "WeatherAPIError" /\ out.message = SERVER_ERROR
          /\ out.statusCode = lkProviderStatus THEN "serverError"
  ELSE IF out.class = "WeatherAPIError" /\ out.message = UNKNOWN_ERROR
          /\ out.statusCode = 500 THEN "unexpected"
  ELSE "other"

\* the invocation for a non-empty trimmed city has ended
LookupEnded == lkPc = "idle" /\ lkProviderCalls = 1

\* C17 as stated: the invocation ends in success exactly when the provider
\* responds OK, in a not-found error exactly when it responds 400, in a
\* server error exactly for any other status, in a network error exactly
\* for an abort or a transport failure, and in nothing else.
C17_Original ==
  LookupEnded =>
    /\ OutcomeKind(lkOutcome) \in {"success", "notFound", "serverError", "network"}
    /\ OutcomeKind(lkOutcome) = "success" <=> ResponseOk(lkProviderStatus)
    /\ OutcomeKind(lkOutcome) = "notFound" <=> lkProviderStatus = 400
    /\ OutcomeKind(lkOutcome) = "network" <=> lkProviderStatus = 0

\* C17 as amended: there is a fifth outcome, an unexpected error with the
\* unknown-error message and status code 500, for an OK response whose body
\* does not parse and for a thrown failure that is neither an abort nor a
\* TypeError naming fetch; the other four are as stated.
C17_FiveOutcomes ==
  LookupEnded =>
    LET kind == OutcomeKind(lkOutcome)
    IN  /\ kind \in {"success", "notFound", "serverError", "network", "unexpected"}
        /\ kind = "success" <=> (ResponseOk(lkProviderStatus) /\ lkCause = "valid")
        /\ kind = "notFound" <=> lkProviderStatus = 400
        /\ kind = "serverError" <=>
             (lkProviderStatus # 0 /\ ~ResponseOk(lkProviderStatus) /\ lkProviderStatus # 400)
        /\ kind = "network" <=> lkCause \in {"abort", "TypeError:fetch"}
        /\ kind = "unexpected" <=>
             \/ ResponseOk(lkProviderStatus) /\ lkCause = "malformed"
             \/ lkCause = "TypeError:other"
        /\ kind = "notFound" =>
             lkOutcome.message = IF lkCause = "withMessage" THEN ProviderMessage
                                 ELSE CITY_NOT_FOUND

\* the provider answered OK with a body that does not parse
C17_Witness ==
  /\ LookupEnded
  /\ lkProviderStatus = 200
  /\ lkCause = "malformed"
  /\ OutcomeKind(lkOutcome) = "unexpected"
  /\ lkResult.status = 500

\* --------------------------------------------------------------------- C18
\* C18: for a missing, empty or whitespace-only city the lookup endpoint
\* answers 400 with the city-required message at once and makes no request
\* to the provider.
C18_ValidationFailsFast ==
  (lkHandled > 0 /\ (lkParam = Null \/ AllWhitespace(lkParam[1]))) =>
    /\ lkPc = "idle"
    /\ lkClock = 0
    /\ lkProviderCalls = 0
    /\ lkResult = [status |-> 400, error |-> CITY_REQUIRED, data |-> Null]

\* a whitespace-only city, after a request that did reach the provider
C18_Witness ==
  /\ lkHandled = 2
  /\ lkParam = Some(<<" ">>)
  /\ lkOutcome.class = "ValidationError"
  /\ lkResult.status = 400
  /\ lkProviderCalls = 0

\* ======================================================================
\* /api/log-search: the logging endpoint
\* ======================================================================
\* bound: entries made
MaxLogPosts == 1002

MAX_LOGS == 1000

\* request bodies: text that is not JSON, the JSON value null, and objects
\* whose city is missing, a number, or a string
LogBodies ==
  {[kind |-> "unparseable", cityType |-> "undefined", city |-> << >>],
   [kind |-> "null", cityType |-> "undefined", city |-> << >>],
   [kind |-> "object", cityType |-> "undefined", city |-> << >>],
   [kind |-> "object", cityType |-> "number", city |-> << >>],
   [kind |-> "object", cityType |-> "string", city |-> << >>],
   [kind |-> "object", cityType |-> "string", city |-> <<" ">>],
   [kind |-> "object", cityType |-> "string", city |-> <<"L", "o">>],
   [kind |-> "object", cityType |-> "string", city |-> <<" ", "L", "o", " ">>]}

\* `await req.json()` or `const { city } = body` throws
BodyThrows(body) == body.kind \in {"unparseable", "null"}

\* `!city || typeof city !== "string" || !city.trim()`
InvalidCityNoTrim(body) ==
  \/ body.cityType = "undefined"
  \/ body.cityType = "string" /\ body.city = << >>
  \/ body.cityType # "string"
InvalidCity(body) ==
  \/ body.cityType = "undefined"
  \/ body.cityType = "string" /\ body.city = << >>
  \/ body.cityType # "string"
  \/ Trim(body.city) = << >>

\* searchLogs.push(logEntry); if (searchLogs.length > MAX_LOGS) searchLogs.shift()
PushUnbounded(logs, entry) == Append(logs, entry)
PushBounded(logs, entry) ==
  LET pushed == Append(logs, entry)
  IN  IF Len(pushed) > MAX_LOGS THEN Tail(pushed) ELSE pushed

\* POST /api/log-search
LgPost(body) ==
  /\ lgClock < MaxLogPosts
  /\ lgBody' = body
  /\ IF BodyThrows(body)
     THEN /\ lgResponse' = [status |-> HTTP_OK, success |-> "false",
                            error |-> "Logging failed but request processed",
                            count |-> 0]
          /\ UNCHANGED <<searchLogs, lgClock>>
     ELSE IF InvalidCity(body)
     THEN /\ lgResponse' = [status |-> HTTP_BAD_REQUEST, success |-> "absent",
                            error |-> "City is required and must be a non-empty string",
                            count |-> 0]
          /\ UNCHANGED <<searchLogs, lgClock>>
     ELSE /\ lgClock' = lgClock + 1
          /\ searchLogs' = PushBounded(searchLogs,
                                       [city |-> Trim(body.city), timestamp |-> lgClock'])
          /\ lgResponse' = [status |-> HTTP_OK, success |-> "true", error |-> "",
                            count |-> 0]
  /\ UNCHANGED <<pageVars, lookupVars>>

\* GET /api/log-search
LgGet ==
  /\ lgResponse' = [status |-> HTTP_OK, success |-> "absent", error |-> "",
                    count |-> Len(searchLogs)]
  /\ lgBody' = NoBody
  /\ UNCHANGED <<searchLogs, lgClock>>
  /\ UNCHANGED <<pageVars, lookupVars>>

NextLog ==
  \/ \E body \in LogBodies : LgPost(body)
  \/ LgGet

SpecLog == Init /\ [][NextLog]_vars

\* --------------------------------------------------------------------- C14
\* the last request was a POST
Posted == lgBody.kind # "none"

\* C14 as stated: every POST, whatever its body, is answered with status
\* 200 and a boolean success field.
C14_Original ==
  Posted => (lgResponse.status = 200 /\ lgResponse.success \in {"true", "false"})

\* C14 as amended: a POST with a valid city is answered 200 with success
\* true; a body that cannot be read (unparseable JSON, JSON null) is
\* answered 200 with success false; a missing, non-string, empty or
\* whitespace-only city is answered 400 with an error string and no success
\* field.
C14_PostResponses ==
  Posted =>
    IF lgBody.kind \in {"unparseable", "null"}
    THEN lgResponse.status = 200 /\ lgResponse.success = "false"
    ELSE IF lgBody.cityType = "string" /\ ~AllWhitespace(lgBody.city)
    THEN lgResponse.status = 200 /\ lgResponse.success = "true"
    ELSE /\ lgResponse.status = 400
         /\ lgResponse.success = "absent"
         /\ lgResponse.error # ""

\* a whitespace-only city was refused after an entry had been made
C14_Witness ==
  /\ lgBody = [kind |-> "object", cityType |-> "string", city |-> <<" ">>]
  /\ lgResponse.status = 400
  /\ Len(searchLogs) = 1

\* --------------------------------------------------------------------- C15
\* C15: the list never holds more than MAX_LOGS entries; it holds the most
\* recent entries made, oldest first: once full, each new entry evicts the
\* oldest one.
C15_BoundedFifo ==
  /\ Len(searchLogs) <= MAX_LOGS
  /\ Len(searchLogs) = IF lgClock <= MAX_LOGS THEN lgClock ELSE MAX_LOGS
  /\ \A k \in DOMAIN searchLogs :
       searchLogs[k].timestamp = lgClock - Len(searchLogs) + k

\* two entries have been evicted from a full list
C15_Witness ==
  /\ Len(searchLogs) = MAX_LOGS
  /\ lgClock = MAX_LOGS + 2
  /\ searchLogs[1].timestamp = 3
  /\ searchLogs[MAX_LOGS].timestamp = MAX_LOGS + 2

\* --------------------------------------------------------------------- C21
\* the body is a JSON object whose city is a string with a character that
\* is not whitespace
ValidCityBody(body) ==
  /\ body.kind = "object"
  /\ body.cityType = "string"
  /\ ~AllWhitespace(body.city)

\* the list after one entry has been pushed onto logs
PushedOne(logs, after) ==
  /\ Len(after) >= 1
  /\ IF Len(logs) < MAX_LOGS
     THEN SubSeq(after, 1, Len(after) - 1) = logs
     ELSE SubSeq(after, 1, Len(after) - 1) = Tail(logs)

\* C21: a POST whose body is an object with a missing, non-string, empty or
\* whitespace-only city is answered 400 and leaves the list as it was (as
\* does a POST whose body cannot be read); a POST with a valid city pushes
\* exactly one entry, whose city is the trimmed value.
C21_PostValidation ==
  [][lgBody'.kind # "none" =>
       IF ValidCityBody(lgBody')
       THEN /\ PushedOne(searchLogs, searchLogs')
            /\ IsTrimOf(searchLogs'[Len(searchLogs')].city, lgBody'.city)
            /\ lgClock' = lgClock + 1
       ELSE /\ searchLogs' = searchLogs
            /\ lgClock' = lgClock
            /\ lgBody'.kind = "object" => lgResponse'.status = 400]_vars

\* a city with surrounding whitespace was stored trimmed as the second entry
C21_Witness ==
  /\ lgBody = [kind |-> "object", cityType |-> "string", city |-> <<" ", "L", "o", " ">>]
  /\ lgResponse.success = "true"
  /\ Len(searchLogs) = 2
  /\ searchLogs[2].city = <<"L", "o">>

\* ======================================================================
\* the page, continued (specification Spec)
\* ======================================================================
\* --------------------------------------------------------------------- C22
\* C22: data and error are never both non-null, and every change of the
\* visible state that leaves one of them non-null leaves the other null.
C22_DataXorError ==
  /\ [](weatherState.data = Null \/ weatherState.error = Null)
  /\ [][(weatherState'.data # Null => weatherState'.error = Null)
        /\ (weatherState'.error # Null => weatherState'.data = Null)]_weatherState

\* an error was shown, then the next lookup succeeded: only the snapshot is left
C22_Witness ==
  /\ \E i \in Ids : outcome[i] = "error" /\ i < appliedBy
  /\ appliedBy \in Ids
  /\ outcome[appliedBy] = "success"
  /\ weatherState.data # Null
  /\ weatherState.error = Null

\* --------------------------------------------------------------------- C23
\* the lookup of id i has its outcome applied by the step
OutcomeApplied(i) ==
  outcome[i] = "none" /\ outcome'[i] \in {"success", "error"}

\* C23: when the outcome (success or error) of a lookup is applied, loading
\* is true just before the step, and while a request holding the current
\* token is in flight the only step that changes the visible state is the
\* one that applies the outcome of that request.
C23_LoadingBeforeOutcome ==
  [][/\ \A i \in Ids : OutcomeApplied(i) => (weatherState.loading /\ i = searchIdRef)
     /\ \A r \in inflight :
          (r.id = searchIdRef /\ searchIdRef' = searchIdRef
             /\ weatherState' # weatherState) => OutcomeApplied(r.id)]_vars

\* a stale response was discarded while the current lookup was loading, and
\* the current lookup then ended with an error
C23_Witness ==
  \E j \in Ids :
    /\ lastDrop.id \in Ids
    /\ lastDrop.id < j
    /\ lastDrop.appliedBy = j
    /\ lastDrop.after = "none"
    /\ outcome[j] = "error"
    /\ ~weatherState.loading

\* --------------------------------------------------------------------- C24
\* a timer that is set and not cleared fires once its delay has passed, and
\* every request to the lookup endpoint eventually responds or fails and
\* its body is eventually read or fails to parse; the user may stop editing
\* at any time and the logger's POST may never settle
Fairness ==
  /\ WF_vars(Tick)
  /\ WF_vars(\E t \in timers : FireTimer(t))
  /\ WF_vars(\E r \in inflight, res \in FetchResults : FetchSettles(r, res))
  /\ WF_vars(\E r \in inflight, body \in BodyResults : BodySettles(r, body))

SpecLive == Init /\ [][Next]_vars /\ Fairness

\* the visible state is the outcome of a lookup for the query value
OutcomeForQuery ==
  /\ ~weatherState.loading
  /\ IF AllWhitespace(city)
     THEN weatherState = Idle
     ELSE \/ weatherState.data = Some(Snapshot(Trim(city))) /\ weatherState.error = Null
          \/ weatherState.data = Null /\ weatherState.error # Null

\* C24: once the user has stopped editing, and given that every request to
\* the lookup endpoint responds or fails, loading becomes false and stays
\* false and the visible state is from then on the outcome for the final
\* query value (Idle if it is empty or whitespace-only), whatever stale
\* responses were discarded on the way.
C24_EventuallySettled == <>[]OutcomeForQuery

\* nothing is pending, the final query's snapshot is shown, and a stale
\* response was discarded while the final lookup was still loading
C24_Witness ==
  /\ timers = {}
  /\ inflight = {}
  /\ OutcomeForQuery
  /\ weatherState.data # Null
  /\ lastDrop.id \in Ids
  /\ lastDrop.appliedBy = searchIdRef
  /\ lastDrop.after = "none"

\* --------------------------------------------------------------------- C25
\* the step is a timer callback for a query that is not blank
FiresLookup ==
  /\ Len(issued') = Len(issued) + 1
  /\ ~AllWhitespace(issued'[Len(issued')].city)

\* C25: the step of a timer callback for a non-empty query sets loading to
\* true and error to null and leaves data as it was; data changes only
\* when an outcome is applied: a success puts the new snapshot, an error or
\* the clear of an empty query puts null.
C25_LoadingKeepsData ==
  [][/\ FiresLookup =>
          weatherState' = [data |-> weatherState.data, loading |-> TRUE, error |-> Null]
     /\ weatherState'.data # weatherState.data =>
          \E i \in Ids :
            /\ outcome[i] = "none"
            /\ \/ outcome'[i] = "success" /\ weatherState'.data # Null
               \/ outcome'[i] \in {"error", "cleared"} /\ weatherState'.data = Null]_vars

\* the snapshot of the previous query is still in the state while the request
\* for the current query is in flight
C25_Witness ==
  \E r \in inflight :
    /\ r.id = searchIdRef
    /\ weatherState.loading
    /\ weatherState.error = Null
    /\ weatherState.data # Null
    /\ weatherState.data # Some(Snapshot(r.city))
====
